---- MODULE Spec2Model ----
(***************************************************************************)
(* Model of ModularMultiplicationDisplay (src/modular_multiplication.py): *)
(* the four stored parameters, the three derived caches (vertex_points,   *)
(* edge_points, connections), the staged recompute of change_parameters   *)
(* and the read-only render get_image.                                    *)
(*                                                                         *)
(* Numbers are the exact reals the floating-point code approximates.      *)
(* An angle is a reduced fraction <<num, den>> of pi (den > 0).  A        *)
(* complex number on the drawing circle is [mod, arg, off], standing for  *)
(* mod * e^(i*pi*arg) + off*(1+i) with arg reduced modulo 2.  A coordinate *)
(* pair (p.real, p.imag) of an interpolated point (1-t)*p1 + t*p2 is      *)
(* [p1, p2, t] with t a reduced fraction in [0,1).                        *)
(*                                                                         *)
(* A Python attribute that has not been assigned yet is absent from        *)
(* attrs; reading it raises AttributeError.                               *)
(***************************************************************************)
EXTENDS Integers, Sequences, FiniteSets, TLC

\* ---------------------------------------------------------------- constants
IMAGE_SIZE == 1200

DRAWING_SIZE == (IMAGE_SIZE * 9) \div 10

MAX_VERTEX_COUNT == 50

MIN_VERTEX_COUNT == 3

\* ------------------------------------------------------------------- bounds
\* polygon vertex counts explored: MIN_VERTEX_COUNT..MaxPolygonVertex, plus
\* the circle value MAX_VERTEX_COUNT
MaxPolygonVertex == 4

\* modulus arguments explored: 1..MaxModulus
MaxModulus == 6

\* number of entries of AngleDegrees explored
MaxAngleIdx == 2

\* degree values the angle slider can deliver (all within -180..180)
AngleDegrees == <<0, -150, 180, -180, 90, 45>>

VertexCounts == (MIN_VERTEX_COUNT..MaxPolygonVertex) \cup {MAX_VERTEX_COUNT}

Moduli == 1..MaxModulus

\* ------------------------------------------------------- exact arithmetic
Abs(x) == IF x < 0 THEN -x ELSE x

RECURSIVE GCD(_, _)
GCD(a, b) == IF b = 0 THEN a ELSE GCD(b, a % b)

\* the fraction n/d (d > 0) in lowest terms
Reduce(n, d) ==
    IF n = 0 THEN <<0, 1>>
    ELSE LET g == GCD(Abs(n), d) IN <<n \div g, d \div g>>

FracAdd(a, b) == Reduce(a[1] * b[2] + b[1] * a[2], a[2] * b[2])

\* an argument, in units of pi, reduced modulo one full turn (2*pi)
ModTurn(f) == Reduce(f[1] % (2 * f[2]), f[2])

\* np.radians(deg): deg * pi / 180
radians(deg) == Reduce(deg, 180)

Angles == {radians(AngleDegrees[i]) : i \in 1..MaxAngleIdx}

\* np.exp(1j * theta): the unit complex number of argument theta
Exp(theta) == [mod |-> 1, arg |-> ModTurn(theta), off |-> 0]

\* product of two complex numbers neither of which has been translated
Mul(p, q) == [mod |-> p.mod * q.mod, arg |-> ModTurn(FracAdd(p.arg, q.arg)), off |-> 0]

Scale(p, r) == [p EXCEPT !.mod = p.mod * r]

\* p + complex(c, c)
Translate(p, c) == [p EXCEPT !.off = p.off + c]

\* the pair (p.real, p.imag) of (1 - t) * p1 + t * p2, t = k / n
Lerp(p1, p2, k, n) ==
    IF k = 0 THEN [p1 |-> p1, p2 |-> p1, t |-> <<0, 1>>]
    ELSE [p1 |-> p1, p2 |-> p2, t |-> Reduce(k, n)]

\* the pair (x.real, x.imag) of a complex number x
Coords(x) == Lerp(x, x, 0, 1)

\* ------------------------------------------------------------ utils.py
rotate_points(points, angle) ==
    [i \in 1..Len(points) |-> Mul(points[i], Exp(angle))]

\* ------------------------------------------- ModularMultiplicationDisplay
\* an image with nothing drawn on it (line 104)
NoImage ==
    [outline |-> [shape |-> "none", box |-> <<>>, points |-> <<>>],
     lines |-> <<>>,
     caption |-> [shape |-> "none", V |-> <<>>, M |-> <<>>, K |-> <<>>]]

\* the controller after __init__: parameters set, no cache attribute yet
NewDisplay(image_size, drawing_width) ==
    [vertex_count |-> 3, modulus |-> 9, multiplier |-> 2, angle |-> <<0, 1>>,
     img_size |-> image_size, drawing_width |-> drawing_width,
     center |-> image_size \div 2,
     attrs |-> {}, vertex_points |-> <<>>, edge_points |-> <<>>,
     connections |-> <<>>, img |-> NoImage]

is_circle_gt(self) == self.vertex_count > MAX_VERTEX_COUNT

is_circle(self) == self.vertex_count >= MAX_VERTEX_COUNT

\* np.exp(2j * np.pi * np.arange(n) / n)
Roots(n) == [i \in 1..n |-> Exp(Reduce(2 * (i - 1), n))]

compute_vertices(self) ==
    IF is_circle(self)
    THEN [self EXCEPT !.vertex_points = <<>>,
                      !.attrs = @ \cup {"vertex_points"}]
    ELSE LET roots == Roots(self.vertex_count)
             rotated == rotate_points(roots, self.angle)
             scaled == [i \in 1..Len(rotated) |->
                          Scale(rotated[i], self.drawing_width \div 2)]
             vertex_points == [i \in 1..Len(scaled) |->
                                 Translate(scaled[i], self.center)]
         IN [self EXCEPT !.vertex_points = vertex_points,
                         !.attrs = @ \cup {"vertex_points"}]

\* the inner loop of polygon_points: np.linspace(0, 1, n, endpoint=False)
SidePoints(p1, p2, points_per_side) ==
    [k \in 1..points_per_side |-> Lerp(p1, p2, k - 1, points_per_side)]

\* the outer loop of polygon_points from side i on; the partner of vertex i
\* in zip(vertices, np.roll(vertices, -1)) is vertex i+1, the last wraps
RECURSIVE PolygonPointsFrom(_, _, _)
PolygonPointsFrom(vertices, points_per_side, i) ==
    IF i > Len(vertices) THEN <<>>
    ELSE SidePoints(vertices[i], vertices[(i % Len(vertices)) + 1], points_per_side)
         \o PolygonPointsFrom(vertices, points_per_side, i + 1)

polygon_points(vertices, points_per_side) ==
    PolygonPointsFrom(vertices, points_per_side, 1)

PointsPerSide_ceil(modulus, vertex_count) ==
    (modulus + vertex_count - 1) \div vertex_count

PointsPerSide(modulus, vertex_count) == modulus \div vertex_count

\* result: the controller and the exception raised ("none" when it returns)
compute_edge_points(self) ==
    IF is_circle(self)
    THEN LET points == [i \in 1..self.modulus |->
                 Scale(Exp(Reduce(2 * (i - 1), self.modulus)),
                       self.drawing_width \div 2)]
             rotated == rotate_points(points, self.angle)
             moved == [i \in 1..Len(rotated) |->
                         Translate(rotated[i], self.center)]
         IN [self |-> [self EXCEPT
                         !.edge_points = [i \in 1..Len(moved) |-> Coords(moved[i])],
                         !.attrs = @ \cup {"edge_points"}],
             raised |-> "none"]
    ELSE IF "vertex_points" \notin self.attrs
    THEN [self |-> self, raised |-> "AttributeError"]
    ELSE [self |-> [self EXCEPT
                      !.edge_points =
                          polygon_points(self.vertex_points,
                              PointsPerSide(self.modulus, self.vertex_count)),
                      !.attrs = @ \cup {"edge_points"}],
          raised |-> "none"]

ConnectionList_unreduced(edge_point_count, multiplier) ==
    [n \in 1..edge_point_count |-> <<n - 1, (n - 1) * multiplier>>]

ConnectionList_add(edge_point_count, multiplier) ==
    [n \in 1..edge_point_count |->
        <<n - 1, ((n - 1) + multiplier) % edge_point_count>>]

\* the connection list for a given number of edge points; start and end
\* are the 0-based indices of the source
ConnectionList(edge_point_count, multiplier) ==
    [n \in 1..edge_point_count |->
        <<n - 1, ((n - 1) * multiplier) % edge_point_count>>]

\* reached only with edge_points assigned (change_parameters line 83)
compute_connections(self) ==
    [self EXCEPT !.connections =
                     ConnectionList(Len(self.edge_points), self.multiplier),
                 !.attrs = @ \cup {"connections"}]

\* --------------------------------------------------- staleness conditions
\* line 75: if angle_changed or vertex_count_changed
VerticesStale_any(angle_changed, vertex_count_changed, modulus_changed) ==
    angle_changed \/ vertex_count_changed \/ modulus_changed

VerticesStale(angle_changed, vertex_count_changed, modulus_changed) ==
    angle_changed \/ vertex_count_changed

\* line 79: if angle_changed or vertex_count_changed or modulus_changed
EdgePointsStale_no_angle(angle_changed, vertex_count_changed, modulus_changed) ==
    vertex_count_changed \/ modulus_changed

EdgePointsStale_no_modulus(angle_changed, vertex_count_changed, modulus_changed) ==
    angle_changed \/ vertex_count_changed

EdgePointsStale(angle_changed, vertex_count_changed, modulus_changed) ==
    angle_changed \/ vertex_count_changed \/ modulus_changed

\* lines 83-84: actual_modulus_changed or multiplier_changed
ConnectionsStale_multiplier_only(actual_modulus_prev, edge_point_count, multiplier_changed) ==
    multiplier_changed

ConnectionsStale_always(actual_modulus_prev, edge_point_count, multiplier_changed) ==
    TRUE

ConnectionsStale_modulus_changed(actual_modulus_prev, edge_point_count, multiplier_changed) ==
    actual_modulus_prev # edge_point_count

ConnectionsStale(actual_modulus_prev, edge_point_count, multiplier_changed) ==
    actual_modulus_prev # edge_point_count \/ multiplier_changed

\* ------------------------------------------------------ change_parameters
\* result: the controller as the call leaves it, the compute stages it
\* entered in order, and the exception that ended it ("none": it returned)
change_parameters(self, vertex_count, modulus, multiplier, angle) ==
    LET vertex_count_changed == self.vertex_count # vertex_count
        modulus_changed == self.modulus # modulus
        multiplier_changed == self.multiplier # multiplier
        angle_changed == self.angle # angle
        actual_modulus_prev ==
            IF "edge_points" \in self.attrs THEN Len(self.edge_points) ELSE 0
        s1 == [self EXCEPT !.angle = angle]
        doVertices == VerticesStale(angle_changed, vertex_count_changed, modulus_changed)
        s2 == IF doVertices
              THEN compute_vertices([s1 EXCEPT !.vertex_count = vertex_count])
              ELSE s1
        inv2 == IF doVertices THEN <<"compute_vertices">> ELSE <<>>
        doEdges == EdgePointsStale(angle_changed, vertex_count_changed, modulus_changed)
        r3 == IF doEdges
              THEN compute_edge_points([s2 EXCEPT !.modulus = modulus])
              ELSE [self |-> s2, raised |-> "none"]
        s3 == r3.self
        inv3 == IF doEdges THEN Append(inv2, "compute_edge_points") ELSE inv2
    IN  IF r3.raised # "none"
        THEN [self |-> s3, invoked |-> inv3, raised |-> r3.raised]
        ELSE IF "edge_points" \notin s3.attrs
        THEN [self |-> s3, invoked |-> inv3, raised |-> "AttributeError"]
        ELSE IF ConnectionsStale(actual_modulus_prev, Len(s3.edge_points),
                                 multiplier_changed)
        THEN [self |-> compute_connections([s3 EXCEPT !.multiplier = multiplier]),
              invoked |-> Append(inv3, "compute_connections"),
              raised |-> "none"]
        ELSE [self |-> s3, invoked |-> inv3, raised |-> "none"]

\* ---------------------------------------------------------------- get_image
\* result: the controller with the outline drawn on img, and the exception
draw_vertex_connections(self) ==
    IF is_circle(self)
    THEN [self |-> [self EXCEPT !.img.outline =
                     [shape |-> "ellipse",
                      box |-> << <<self.center - self.drawing_width \div 2,
                                   self.center - self.drawing_width \div 2>>,
                                 <<self.center + self.drawing_width \div 2,
                                   self.center + self.drawing_width \div 2>> >>,
                      points |-> <<>>]],
          raised |-> "none"]
    ELSE IF "vertex_points" \notin self.attrs
    THEN [self |-> self, raised |-> "AttributeError"]
    ELSE [self |-> [self EXCEPT !.img.outline =
                     [shape |-> "polygon", box |-> <<>>,
                      points |-> [i \in 1..Len(self.vertex_points) |->
                                     Coords(self.vertex_points[i])]]],
          raised |-> "none"]

\* the 1-based positions of the connections whose start or end index is
\* not an index of edge_points
BadConnections(self) ==
    {n \in 1..Len(self.connections) :
        \/ self.connections[n][1] >= Len(self.edge_points)
        \/ self.connections[n][2] >= Len(self.edge_points)}

Min(S) == CHOOSE x \in S : \A y \in S : x <= y

\* the segments of the connections 1..last
Segments(self, last) ==
    [n \in 1..last |-> <<self.edge_points[self.connections[n][1] + 1],
                         self.edge_points[self.connections[n][2] + 1]>>]

draw_multiplication_connections_pop(self) ==
    IF "connections" \notin self.attrs
    THEN [self |-> self, raised |-> "AttributeError"]
    ELSE [self |-> [self EXCEPT !.img.lines = Segments(self, Len(self.connections)),
                                !.connections = <<>>],
          raised |-> "none"]

\* one line per connection, up to the first one that cannot be drawn
draw_multiplication_connections(self) ==
    IF "connections" \notin self.attrs
    THEN [self |-> self, raised |-> "AttributeError"]
    ELSE IF self.connections # <<>> /\ "edge_points" \notin self.attrs
    THEN [self |-> self, raised |-> "AttributeError"]
    ELSE LET bad == BadConnections(self)
             last == IF bad = {} THEN Len(self.connections) ELSE Min(bad) - 1
         IN [self |-> [self EXCEPT !.img.lines = Segments(self, last)],
             raised |-> IF bad = {} THEN "none" ELSE "IndexError"]

\* the caption drawn by line 109
Caption(self) ==
    LET circle == self.vertex_count >= MAX_VERTEX_COUNT
    IN [shape |-> IF circle THEN "circle" ELSE "polygon",
        V |-> IF circle THEN <<>> ELSE <<self.vertex_count>>,
        M |-> <<self.modulus>>,
        K |-> <<self.multiplier>>]

\* result: the controller (img is assigned a new image first, line 104),
\* and the exception that ended the render ("none": it returned self.img)
get_image(self) ==
    LET s0 == [self EXCEPT !.img = NoImage]
        r1 == draw_vertex_connections(s0)
        r2 == draw_multiplication_connections(r1.self)
    IN  IF r1.raised # "none" THEN r1
        ELSE IF r2.raised # "none" THEN r2
        ELSE [self |-> [r2.self EXCEPT !.img.caption = Caption(r2.self)],
              raised |-> "none"]

\* ------------------------------------------------------------------- state
VARIABLES
    vertex_count, modulus, multiplier, angle,   \* the stored parameters
    vertex_points, edge_points, connections,    \* the caches
    attrs,       \* names of the cache attributes assigned so far
    call,        \* the most recent operation: op, args, compute stages entered,
                 \* exception raised, value returned
    last_change, \* args and outcome of the most recent change_parameters
    gui,         \* the GUI: its Tk variables, the multiplier slider's upper
                 \* bound, the sliders whose command is left to run
                 \* (NoGui where no GUI is running)
    pure         \* a kernel function applied on its own: input and result

vars == <<vertex_count, modulus, multiplier, angle, vertex_points,
          edge_points, connections, attrs, call, last_change, gui, pure>>

\* the controller object the variables hold; img (and the draw context on
\* it) is assigned anew by every get_image before it is read, so it is
\* kept only as the value the render returns
Self ==
    [vertex_count |-> vertex_count, modulus |-> modulus,
     multiplier |-> multiplier, angle |-> angle,
     img_size |-> IMAGE_SIZE, drawing_width |-> DRAWING_SIZE,
     center |-> IMAGE_SIZE \div 2,
     attrs |-> attrs, vertex_points |-> vertex_points,
     edge_points |-> edge_points, connections |-> connections, img |-> NoImage]

Store(s) ==
    /\ vertex_count' = s.vertex_count
    /\ modulus' = s.modulus
    /\ multiplier' = s.multiplier
    /\ angle' = s.angle
    /\ vertex_points' = s.vertex_points
    /\ edge_points' = s.edge_points
    /\ connections' = s.connections
    /\ attrs' = s.attrs

NoArgs == [vertex_count |-> 0, modulus |-> 0, multiplier |-> 0, angle |-> <<0, 1>>]

\* no GUI around the controller
NoGui == [pc |-> "none"]

\* no kernel function under test
NoPure == [pc |-> "none"]

\* GUI.__init__ line 115: ModularMultiplicationDisplay(IMAGE_SIZE, DRAWING_SIZE)
NewController ==
    /\ LET s == NewDisplay(IMAGE_SIZE, DRAWING_SIZE)
       IN /\ vertex_count = s.vertex_count
          /\ modulus = s.modulus
          /\ multiplier = s.multiplier
          /\ angle = s.angle
          /\ vertex_points = s.vertex_points
          /\ edge_points = s.edge_points
          /\ connections = s.connections
          /\ attrs = s.attrs
    /\ call = [op |-> "__init__", args |-> NoArgs, invoked |-> <<>>,
               raised |-> "none", returned |-> NoImage]
    /\ last_change = [called |-> FALSE, args |-> NoArgs, raised |-> "none"]

Init ==
    /\ NewController
    /\ gui = NoGui
    /\ pure = NoPure

\* change_parameters(vertex_count, modulus, multiplier, angle)
ChangeParameters(vc, m, k, a) ==
    \E self \in {Self} : \E r \in {change_parameters(self, vc, m, k, a)} :
    LET args == [vertex_count |-> vc, modulus |-> m, multiplier |-> k, angle |-> a]
    IN /\ Store(r.self)
       /\ call' = [op |-> "change_parameters", args |-> args,
                   invoked |-> r.invoked, raised |-> r.raised,
                   returned |-> NoImage]
       /\ last_change' = [called |-> TRUE, args |-> args, raised |-> r.raised]
       /\ UNCHANGED <<gui, pure>>

GetImage ==
    \E self \in {Self} : \E r \in {get_image(self)} :
       /\ Store(r.self)
       /\ call' = [op |-> "get_image", args |-> NoArgs,
                   invoked |-> <<>>, raised |-> r.raised,
                   returned |-> IF r.raised = "none" THEN r.self.img ELSE NoImage]
       /\ UNCHANGED <<last_change, gui, pure>>

\* the in-range arguments: 3 <= vertex_count <= 50, 1 <= modulus,
\* 0 <= multiplier <= modulus, angle = radians of a slider value
Next ==
    \/ \E vc \in VertexCounts, m \in Moduli, a \in Angles :
         \E k \in 0..m : ChangeParameters(vc, m, k, a)
    \/ GetImage

Spec == Init /\ [][Next]_vars

\* ------------------------------------------------------------ properties
Has(seq, x) == \E i \in 1..Len(seq) : seq[i] = x

\* Vertices, EdgePoints and Connections have all been computed
AllComputed == {"vertex_points", "edge_points", "connections"} \subseteq attrs

\* len(self.edge_points), 0 if never computed
EdgePointCount == IF "edge_points" \in attrs THEN Len(edge_points) ELSE 0

\* C1: on a controller whose caches have all been computed, the cached
\* connections are exactly the pairs (i, (i * multiplier) mod L) for
\* i = 0..L-1, L the current number of cached edge points and multiplier
\* the multiplier argument of the most recent change_parameters call.
C1_ConnectionsFollowLatestCall ==
    AllComputed =>
        /\ Len(connections) = Len(edge_points)
        /\ \A n \in 1..Len(connections) :
              connections[n] =
                  <<n - 1, ((n - 1) * last_change.args.multiplier) % Len(edge_points)>>

\* an angle-only change on a populated controller: vertices and edge points
\* recomputed, the connections kept from an earlier call
C1_Witness ==
    /\ AllComputed
    /\ call.op = "change_parameters"
    /\ call.invoked = <<"compute_vertices", "compute_edge_points">>
    /\ Len(connections) >= 3
    /\ last_change.args.multiplier >= 2

\* the caches a controller that recomputes everything holds for the
\* arguments of the most recent call
FullRecompute ==
    LET a == last_change.args
        s == [Self EXCEPT !.vertex_count = a.vertex_count,
                          !.modulus = a.modulus,
                          !.multiplier = a.multiplier,
                          !.angle = a.angle]
    IN compute_edge_points(compute_vertices(s)).self

\* C2: on a controller whose caches have all been computed, the cached
\* vertices and edge points equal what compute_vertices and
\* compute_edge_points yield for the arguments of the latest call, and the
\* stored parameters are those arguments: no cache is stale.
C2_IncrementalEqualsFull ==
    AllComputed =>
        /\ vertex_points = FullRecompute.vertex_points
        /\ edge_points = FullRecompute.edge_points
        /\ <<vertex_count, modulus, angle>> =
              <<last_change.args.vertex_count, last_change.args.modulus,
                last_change.args.angle>>

\* a multiplier-only change at a rotated polygon: both point caches are
\* the ones an earlier call computed
C2_Witness ==
    /\ AllComputed
    /\ call.op = "change_parameters"
    /\ call.invoked = <<"compute_connections">>
    /\ angle # <<0, 1>>
    /\ Len(vertex_points) >= 3
    /\ Len(edge_points) >= 3

\* C3: after every change_parameters call with modulus < vertex_count in
\* polygon mode, the first call on a new controller included, the edge
\* points are empty, the connections are the empty sequence, and a render
\* that follows completes without an error.
C3_DegenerateIsEmptyAndRenders ==
    ( /\ last_change.called
      /\ last_change.args.modulus < last_change.args.vertex_count
      /\ last_change.args.vertex_count < MAX_VERTEX_COUNT )
    => /\ last_change.raised = "none"
       /\ "edge_points" \in attrs /\ edge_points = <<>>
       /\ "connections" \in attrs /\ connections = <<>>
       /\ (call.op = "get_image" => call.raised = "none")

\* C4: after a change_parameters call that recomputed the edge points,
\* their number is vertex_count * floor(modulus / vertex_count) in polygon
\* mode and modulus in circle mode.
C4_EdgePointCount ==
    ( /\ call.op = "change_parameters"
      /\ call.raised = "none"
      /\ Has(call.invoked, "compute_edge_points") )
    => Len(edge_points) =
          IF call.args.vertex_count < MAX_VERTEX_COUNT
          THEN call.args.vertex_count *
                  (call.args.modulus \div call.args.vertex_count)
          ELSE call.args.modulus

\* a polygon whose number of edge points is positive and below the modulus
C4_Witness ==
    /\ call.op = "change_parameters"
    /\ call.raised = "none"
    /\ Has(call.invoked, "compute_edge_points")
    /\ call.args.vertex_count < MAX_VERTEX_COUNT
    /\ Len(edge_points) > 0
    /\ Len(edge_points) < modulus

\* C5: a change_parameters call that returns has invoked
\* compute_connections if and only if the number of edge points after its
\* edge-point stage differs from the number before the call (0 if never
\* computed) or its multiplier argument differs from the stored multiplier.
C5_ConnectionsRecomputedIff ==
    [][ (call'.op = "change_parameters" /\ call'.raised = "none")
        => ( Has(call'.invoked, "compute_connections")
             <=> ( \/ EdgePointCount # Len(edge_points')
                   \/ call'.args.multiplier # multiplier ) ) ]_vars

\* a modulus-only change that keeps floor(modulus / vertex_count): edge
\* points recomputed, compute_connections not invoked
C5_Witness ==
    /\ AllComputed
    /\ call.op = "change_parameters"
    /\ call.raised = "none"
    /\ call.invoked = <<"compute_edge_points">>
    /\ vertex_count < MAX_VERTEX_COUNT
    /\ modulus % vertex_count # 0
    /\ Len(connections) = Len(edge_points)

\* C6: a change_parameters call whose arguments are those of the preceding
\* change_parameters call, which returned, invokes no compute stage and
\* leaves the stored parameters and the three caches as they were.
C6_RepeatedCallIsNoOp ==
    [][ ( /\ last_change.called
          /\ last_change.raised = "none"
          /\ call'.op = "change_parameters"
          /\ call'.args = last_change.args )
        => /\ call'.invoked = <<>>
           /\ call'.raised = "none"
           /\ UNCHANGED <<vertex_count, modulus, multiplier, angle,
                          vertex_points, edge_points, connections, attrs>> ]_vars

\* a call on a populated controller that returned without entering a stage
C6_Witness ==
    /\ AllComputed
    /\ call.op = "change_parameters"
    /\ call.raised = "none"
    /\ call.invoked = <<>>
    /\ Len(connections) >= 3

\* C7: after every change_parameters call that returns, the stored
\* vertex_count, modulus, multiplier and angle equal its arguments.
C7_StoredParametersAreArguments ==
    (call.op = "change_parameters" /\ call.raised = "none")
    => /\ vertex_count = call.args.vertex_count
       /\ modulus = call.args.modulus
       /\ multiplier = call.args.multiplier
       /\ angle = call.args.angle

\* a call that skipped the vertex stage and changed the modulus away from
\* the constructor's value
C7_Witness ==
    /\ call.op = "change_parameters"
    /\ call.raised = "none"
    /\ call.invoked = <<"compute_edge_points", "compute_connections">>
    /\ modulus # 9
    /\ multiplier # 2

\* C8: on a populated controller, a call whose vertex_count and angle
\* arguments equal the stored ones does not invoke compute_vertices and
\* keeps the vertices; if its modulus argument equals the stored one too,
\* it does not invoke compute_edge_points and keeps the edge points.
C8_UnaffectedStagesSkipped ==
    [][ ( /\ AllComputed
          /\ call'.op = "change_parameters"
          /\ call'.args.vertex_count = vertex_count
          /\ call'.args.angle = angle )
        => /\ ~Has(call'.invoked, "compute_vertices")
           /\ vertex_points' = vertex_points
           /\ (call'.args.modulus = modulus
               => /\ ~Has(call'.invoked, "compute_edge_points")
                  /\ edge_points' = edge_points) ]_vars

\* a circle whose modulus and multiplier were changed by the last call
C8_Witness ==
    /\ AllComputed
    /\ call.op = "change_parameters"
    /\ call.invoked = <<"compute_edge_points", "compute_connections">>
    /\ vertex_count >= MAX_VERTEX_COUNT
    /\ Len(edge_points) >= 2

\* C9: a render leaves the stored parameters and the three caches
\* unchanged and invokes no compute stage, and a render that follows a
\* render returns the same image.
C9_RenderIsPureRead ==
    [][ call'.op = "get_image"
        => /\ UNCHANGED <<vertex_count, modulus, multiplier, angle,
                          vertex_points, edge_points, connections, attrs>>
           /\ call'.invoked = <<>>
           /\ (call.op = "get_image" => call'.returned = call.returned) ]_vars

\* a render that returned an image with lines drawn on it
C9_Witness ==
    /\ call.op = "get_image"
    /\ call.raised = "none"
    /\ Len(call.returned.lines) >= 3
    /\ Len(connections) >= 3

\* C10: on a controller whose caches have all been computed, the cached
\* vertices are vertex_count points when the stored vertex_count is below
\* 50 and no point when it is 50 or more.
C10_VertexCount ==
    AllComputed =>
        Len(vertex_points) =
            IF vertex_count < MAX_VERTEX_COUNT THEN vertex_count ELSE 0

\* circle mode on a populated controller: no vertices, edge points present
C10_Witness ==
    /\ AllComputed
    /\ vertex_count >= MAX_VERTEX_COUNT
    /\ vertex_points = <<>>
    /\ Len(edge_points) >= 1

\* ------------------------------------------------- utils.clean_complex
\* tol = 1e-10; real and imaginary parts are counted in units of 1e-11
TOL == 10

\* parts explored: below tol in magnitude (-1, 0, 9), exactly tol, above
Components == {-30, -1, 0, 9, 10, 30}

Complex(re, im) == [type |-> "complex", re |-> re, im |-> im]

\* list entries that are not complex: the floats 0.0 and 3e-10
NonComplex == {[type |-> "float", re |-> 0, im |-> 0],
               [type |-> "float", re |-> 30, im |-> 0]}

CleanEntries == {Complex(re, im) : re \in Components, im \in Components}
                    \cup NonComplex

IsComplex_or_float(c) == c.type \in {"complex", "float"}

\* isinstance(c, complex)
IsComplex(c) == c.type = "complex"

\* the loop of clean_complex from index i on; c is the entry as it was
\* when the iteration began, values is assigned in place
RECURSIVE CleanFrom(_, _)
CleanFrom(values, i) ==
    IF i > Len(values) THEN [values |-> values, raised |-> "none"]
    ELSE LET c == values[i]
         IN IF ~IsComplex(c)
            THEN [values |-> values, raised |-> "ValueError"]
            ELSE LET v1 == IF Abs(c.re) < TOL
                           THEN [values EXCEPT ![i] = Complex(0, c.im)]
                           ELSE values
                     v2 == IF Abs(c.im) < TOL
                           THEN [v1 EXCEPT ![i] = Complex(c.re, 0)]
                           ELSE v1
                 IN CleanFrom(v2, i + 1)

\* result: the list as the call leaves it and the exception raised; the
\* list is returned when raised = "none"
clean_complex(values) == CleanFrom(values, 1)

\* longest list handed to clean_complex
MaxListLen == 2

CleanInputs == UNION {[1..n -> CleanEntries] : n \in 0..MaxListLen}

CleanInit ==
    /\ NewController
    /\ gui = NoGui
    /\ \E values \in CleanInputs :
          pure = [pc |-> "input", input |-> values, values |-> values,
                  raised |-> "none"]

CleanComplex ==
    /\ pure.pc = "input"
    /\ \E r \in {clean_complex(pure.input)} :
          pure' = [pc |-> "done", input |-> pure.input, values |-> r.values,
                   raised |-> r.raised]
    /\ UNCHANGED <<vertex_count, modulus, multiplier, angle, vertex_points,
                   edge_points, connections, attrs, call, last_change, gui>>

CleanNext == CleanComplex

CleanSpec == CleanInit /\ [][CleanNext]_vars

\* the part a componentwise snap yields
Snapped(x) == IF Abs(x) < TOL THEN 0 ELSE x

\* C11: clean_complex snaps componentwise: in the list it returns, each
\* part of each entry is zero when the input part is below the tolerance
\* in magnitude and the input part otherwise, entries with both parts
\* below the tolerance included.
C11_SnapsComponentwise ==
    (pure.pc = "done" /\ pure.raised = "none")
    => \A i \in 1..Len(pure.input) :
          /\ pure.values[i].re = Snapped(pure.input[i].re)
          /\ pure.values[i].im = Snapped(pure.input[i].im)

\* C13: clean_complex raises ValueError, and returns nothing, whenever
\* some entry of its input is not a complex number, at any position.
C13_RejectsNonComplex ==
    ( /\ pure.pc = "done"
      /\ \E i \in 1..Len(pure.input) : pure.input[i].type # "complex" )
    => pure.raised = "ValueError"

\* a list whose offending entry follows a complex entry that was snapped
C13_Witness ==
    /\ pure.pc = "done"
    /\ pure.raised = "ValueError"
    /\ Len(pure.input) = 2
    /\ pure.input[1] = Complex(9, 30)
    /\ pure.input[2].type = "float"
    /\ pure.values[1] = Complex(0, 30)

\* ----------------------------------------- compute_connections on its own
\* largest number of edge points handed to compute_connections
MaxEdgePoints == 6

\* largest multiplier handed to compute_connections
MaxMultiplier == 13

\* a controller holding edge_point_count edge points (those of the circle
\* of that modulus) and the given multiplier
WithEdgePoints(edge_point_count, k) ==
    LET s == [NewDisplay(IMAGE_SIZE, DRAWING_SIZE) EXCEPT
                 !.vertex_count = MAX_VERTEX_COUNT,
                 !.modulus = edge_point_count,
                 !.multiplier = k]
    IN compute_edge_points(s).self

ConnInit ==
    /\ NewController
    /\ gui = NoGui
    /\ \E L \in 1..MaxEdgePoints, K1 \in 0..MaxMultiplier, K2 \in 0..MaxMultiplier :
          pure = [pc |-> "input", L |-> L, K1 |-> K1, K2 |-> K2,
                  c1 |-> <<>>, c2 |-> <<>>]

\* compute_connections once with each of the two multipliers
ComputeConnections ==
    /\ pure.pc = "input"
    /\ pure' = [pure EXCEPT
          !.pc = "done",
          !.c1 = compute_connections(WithEdgePoints(pure.L, pure.K1)).connections,
          !.c2 = compute_connections(WithEdgePoints(pure.L, pure.K2)).connections]
    /\ UNCHANGED <<vertex_count, modulus, multiplier, angle, vertex_points,
                   edge_points, connections, attrs, call, last_change, gui>>

ConnNext == ComputeConnections

ConnSpec == ConnInit /\ [][ConnNext]_vars

\* C12: for L >= 1 edge points and non-negative multipliers K1, K2 with
\* K1 mod L = K2 mod L, compute_connections yields the same connections,
\* and every start and end index lies in 0..L-1.
C12_MultiplierTakenModuloCount ==
    pure.pc = "done"
    => /\ (pure.K1 % pure.L = pure.K2 % pure.L => pure.c1 = pure.c2)
       /\ Len(pure.c1) = pure.L
       /\ \A n \in 1..Len(pure.c1) :
             /\ pure.c1[n][1] \in 0..(pure.L - 1)
             /\ pure.c1[n][2] \in 0..(pure.L - 1)

\* the multiplier equal to the edge-point count next to the multiplier 0
C12_Witness ==
    /\ pure.pc = "done"
    /\ pure.L >= 3
    /\ pure.K1 = pure.L
    /\ pure.K2 = 0
    /\ pure.c1 = pure.c2
    /\ \A n \in 1..Len(pure.c1) : pure.c1[n][2] = 0

\* the end indices of a connection list cover 0..L-1
IsPermutation(c) == {c[n][2] : n \in 1..Len(c)} = 0..(Len(c) - 1)

\* C15: the map i -> (i * multiplier) mod L given by the connections is a
\* permutation of 0..L-1 exactly when gcd(multiplier, L) = 1, and the
\* first connection is (0, 0).
C15_PermutationIffCoprime ==
    pure.pc = "done"
    => /\ (IsPermutation(pure.c1) <=> GCD(pure.K1, pure.L) = 1)
       /\ pure.c1[1] = <<0, 0>>

\* a coprime multiplier that is not the identity, and one that is not
\* coprime, on the same edge points
C15_Witness ==
    /\ pure.pc = "done"
    /\ pure.L = 6
    /\ pure.K1 = 5
    /\ pure.K2 = 4
    /\ IsPermutation(pure.c1)
    /\ ~IsPermutation(pure.c2)
    /\ pure.c1[2] = <<1, 5>>

\* ------------------------------------------- first call on a new controller
\* C14: the first change_parameters call on a newly constructed
\* controller, whatever its in-range arguments, returns without an error
\* and leaves vertex_points, edge_points and connections all assigned.
C14_FirstCallPopulates ==
    [][ (call.op = "__init__" /\ call'.op = "change_parameters")
        => (call'.raised = "none" /\ AllComputed') ]_vars

\* --------------------------------------------------------------------- GUI
MAX_MODULUS == 1000

\* the defaults of the four slider rows (lines 150, 153, 156, 159)
DEFAULT_VERTEX == 3

DEFAULT_MODULUS == 100

DEFAULT_MULTIPLIER == 2

DEFAULT_ANGLE == -150

\* the ranges of the four sliders (lines 150, 153, 156, 159); the vertex
\* slider runs from MIN_VERTEX_COUNT to MAX_VERTEX_COUNT
MIN_MODULUS == 1

MIN_MULTIPLIER == 0

MIN_ANGLE == -180

MAX_ANGLE == 180

\* A Tk variable holds the number its text reads.  The model counts it in
\* quarters, so that a text with a fraction has a value: 12 is the text 3,
\* 10 the text 2.5, -603 the text -150.75.  The texts between two
\* neighbouring quarters read the same to IntVar.get() and to the Scale
IntText(n) == 4 * n

\* IntVar.get() (lines 175-178): the integer the text reads, a fraction
\* cut off towards zero
IntVarGet(q) == IF q >= 0 THEN q \div 4 ELSE -((-q) \div 4)

\* the position a Scale (line 136, resolution 1) shows for its variable:
\* the nearest integer, a half going up
ScaleValue(q) == (q + 2) \div 4

\* the two ends of a Scale's range, whichever of from and to is larger
ScaleLow(from, to) == IF from <= to THEN from ELSE to

ScaleHigh(from, to) == IF from <= to THEN to ELSE from

\* a Scale keeps its position inside its range
ScaleClamp(x, from, to) ==
    IF x < ScaleLow(from, to) THEN ScaleLow(from, to)
    ELSE IF x > ScaleHigh(from, to) THEN ScaleHigh(from, to)
    ELSE x

\* the Scale's own trace on its variable (variable=var, line 137), run
\* after a write that did not come from the slider: the slider takes the
\* rounded value; only when that lies outside the range is the variable
\* rewritten, to the end of the range
ScaleVarProc(q, from, to) ==
    LET shown == ScaleValue(q)
        kept == ScaleClamp(shown, from, to)
    IN IF kept = shown THEN q ELSE IntText(kept)

\* what an entry (line 142, no validation) can be left holding: a number
\* (in quarters), an infinity (the texts Inf and -Inf, which Tcl reads as
\* numbers), or a text that is no number (the empty text, a letter)
Number(q) == [kind |-> "number", q |-> q]

PlusInf == [kind |-> "inf", q |-> 1]

MinusInf == [kind |-> "inf", q |-> -1]

NonNumeric == [kind |-> "other", q |-> 0]

\* the variable after the entry has written text and the Scale's trace
\* has run.  An infinity is outside every range and is rewritten to the
\* end of the range on its side; for a text that is no number the Scale
\* writes its position back
EntryWrite(old, text, from, to) ==
    CASE text.kind = "number" -> ScaleVarProc(text.q, from, to)
      [] text.kind = "inf" ->
            IntText(IF text.q > 0 THEN ScaleHigh(from, to)
                    ELSE ScaleLow(from, to))
      [] OTHER -> IntText(ScaleValue(old))

\* modulus values the GUI events deliver: 1..MaxGuiModulus and the default
MaxGuiModulus == 1

GuiModuli == (1..MaxGuiModulus) \cup {DEFAULT_MODULUS}

\* vertex counts the GUI events deliver: MIN_VERTEX_COUNT..MaxGuiVertex
\* (the default and its neighbour) and the circle value
MaxGuiVertex == 4

GuiVertexCounts == (MIN_VERTEX_COUNT..MaxGuiVertex) \cup {MAX_VERTEX_COUNT}

\* angles the GUI events deliver: the first MaxGuiAngleIdx entries of
\* GuiAngleDegrees, the default and its neighbour
MaxGuiAngleIdx == 2

GuiAngleDegrees == <<DEFAULT_ANGLE, DEFAULT_ANGLE - 1, 0, MAX_ANGLE>>

GuiAngles == {GuiAngleDegrees[i] : i \in 1..MaxGuiAngleIdx}

\* multiplier values the GUI events deliver: 0 <= k <= the slider's to
GuiMultipliers(g) == {k \in 0..MaxGuiModulus : k <= g.multiplier_to}

\* the sliders moved before the event loop next goes idle: no slider is
\* moved while MaxGuiPending sliders have their command left to run
MaxGuiPending == 1

GuiSlides(g, positions) ==
    IF Cardinality(g.pending) < MaxGuiPending THEN positions ELSE {}

\* a Scale configured (config(to=...), line 164; the `configure -state`
\* of Tk's own bindings when the pointer crosses the knob): the slider
\* takes the rounded variable and keeps it inside the range from..to; a
\* position the range has moved leaves the slider's command to run when
\* the event loop is idle (moved); a variable that reads differently
\* from the position is rewritten to the position (var)
ConfigureScale(q, from, to) ==
    LET shown == ScaleValue(q)
        kept == ScaleClamp(shown, from, to)
    IN [var |-> IntText(kept), moved |-> kept # shown]

\* the trace on modulus_var (lines 162-166), run on a write of the
\* variable.  config(to=new_max) configures the multiplier Scale with the
\* range 0..new_max.  The test of line 165 finds something to lower only
\* for new_max < 0
update_multiplier_max(g) ==
    LET new_max == IntVarGet(g.modulus_var)
        scale == ConfigureScale(g.multiplier_var, MIN_MULTIPLIER, new_max)
        configured ==
            [g EXCEPT !.multiplier_to = new_max,
                      !.multiplier_var = scale.var,
                      !.pending = IF scale.moved
                                  THEN @ \cup {"multiplier"} ELSE @]
    IN IF IntVarGet(configured.multiplier_var) > new_max
       THEN [configured EXCEPT
                !.multiplier_var =
                    ScaleVarProc(IntText(new_max), MIN_MULTIPLIER, new_max)]
       ELSE configured

\* GUI.__init__ up to line 169: the four rows at their defaults, the
\* multiplier slider created with to = MAX_MODULUS, the trace run once.
\* modulus_var carries two traces, the modulus Scale's own (line 137) and
\* update_multiplier_max (line 168); Tcl runs the one set last first, so
\* update_multiplier_max goes first until the modulus Scale is configured
\* and sets its trace anew (scale_first)
NewGui ==
    update_multiplier_max(
        [pc |-> "init",
         vertex_var |-> IntText(DEFAULT_VERTEX),
         modulus_var |-> IntText(DEFAULT_MODULUS),
         multiplier_var |-> IntText(DEFAULT_MULTIPLIER),
         angle_var |-> IntText(DEFAULT_ANGLE),
         multiplier_to |-> MAX_MODULUS, pending |-> {},
         scale_first |-> FALSE])

GuiInit ==
    /\ NewController
    /\ gui = NewGui
    /\ pure = NoPure

\* update_display with the GUI variables g: the four IntVar.get(), then
\* change_parameters, then get_image unless the call raised
UpdateDisplay(g) ==
    \E self \in {Self} :
    \E args \in {[vertex_count |-> IntVarGet(g.vertex_var),
                  modulus |-> IntVarGet(g.modulus_var),
                  multiplier |-> IntVarGet(g.multiplier_var),
                  angle |-> radians(IntVarGet(g.angle_var))]} :
    \E r \in {change_parameters(self, args.vertex_count, args.modulus,
                                args.multiplier, args.angle)} :
    \E i \in {IF r.raised = "none" THEN get_image(r.self)
              ELSE [self |-> r.self, raised |-> r.raised]} :
       /\ Store(i.self)
       /\ last_change' = [called |-> TRUE, args |-> args, raised |-> r.raised]
       /\ call' = IF r.raised = "none"
                  THEN [op |-> "get_image", args |-> NoArgs, invoked |-> <<>>,
                        raised |-> i.raised,
                        returned |-> IF i.raised = "none" THEN i.self.img
                                     ELSE NoImage]
                  ELSE [op |-> "change_parameters", args |-> args,
                        invoked |-> r.invoked, raised |-> r.raised,
                        returned |-> NoImage]
       /\ gui' = g
       /\ UNCHANGED pure

\* a callback that writes Tk variables and returns to the event loop:
\* nothing is redrawn
WriteOnly(g) ==
    /\ gui' = g
    /\ UNCHANGED <<vertex_count, modulus, multiplier, angle, vertex_points,
                   edge_points, connections, attrs, call, last_change, pure>>

\* line 172: the update_display that ends GUI.__init__
GuiStart ==
    /\ gui.pc = "init"
    /\ UpdateDisplay([gui EXCEPT !.pc = "running"])

\* a slider set to position v of its range (a drag of the knob, a click
\* in the trough, an arrow key): a slider already on v does nothing;
\* otherwise the variable is written and the slider's command (line 138)
\* is left to run when the event loop is idle
SlideVertex(v) ==
    /\ gui.pc = "running"
    /\ v \in MIN_VERTEX_COUNT..MAX_VERTEX_COUNT
    /\ v # ScaleValue(gui.vertex_var)
    /\ WriteOnly([gui EXCEPT !.vertex_var = IntText(v),
                             !.pending = @ \cup {"vertex"}])

SlideModulus(m) ==
    /\ gui.pc = "running"
    /\ m \in MIN_MODULUS..MAX_MODULUS
    /\ m # ScaleValue(gui.modulus_var)
    /\ WriteOnly(update_multiplier_max(
           [gui EXCEPT !.modulus_var = IntText(m),
                       !.pending = @ \cup {"modulus"}]))

SlideMultiplier(k) ==
    /\ gui.pc = "running"
    /\ k = ScaleClamp(k, MIN_MULTIPLIER, gui.multiplier_to)
    /\ k # ScaleValue(gui.multiplier_var)
    /\ WriteOnly([gui EXCEPT !.multiplier_var = IntText(k),
                             !.pending = @ \cup {"multiplier"}])

SlideAngle(deg) ==
    /\ gui.pc = "running"
    /\ deg \in MIN_ANGLE..MAX_ANGLE
    /\ deg # ScaleValue(gui.angle_var)
    /\ WriteOnly([gui EXCEPT !.angle_var = IntText(deg),
                             !.pending = @ \cup {"angle"}])

\* the pointer crosses the knob of a slider, onto it or off it (the
\* bindings every Scale of line 136 comes with): the Scale is configured
\* with its range unchanged.  A variable rewritten runs its other traces;
\* nothing is redrawn
ActivateVertex ==
    /\ gui.pc = "running"
    /\ LET scale == ConfigureScale(gui.vertex_var,
                                   MIN_VERTEX_COUNT, MAX_VERTEX_COUNT)
       IN WriteOnly([gui EXCEPT !.vertex_var = scale.var,
                                !.pending = IF scale.moved
                                            THEN @ \cup {"vertex"} ELSE @])

\* update_multiplier_max runs when the modulus variable is rewritten;
\* from here on the Scale's trace on modulus_var runs before it
ActivateModulus ==
    /\ gui.pc = "running"
    /\ LET scale == ConfigureScale(gui.modulus_var, MIN_MODULUS, MAX_MODULUS)
           written == [gui EXCEPT !.modulus_var = scale.var,
                                  !.pending = IF scale.moved
                                              THEN @ \cup {"modulus"} ELSE @,
                                  !.scale_first = TRUE]
       IN WriteOnly(IF scale.var # gui.modulus_var
                    THEN update_multiplier_max(written) ELSE written)

ActivateMultiplier ==
    /\ gui.pc = "running"
    /\ LET scale == ConfigureScale(gui.multiplier_var,
                                   MIN_MULTIPLIER, gui.multiplier_to)
       IN WriteOnly([gui EXCEPT !.multiplier_var = scale.var,
                                !.pending = IF scale.moved
                                            THEN @ \cup {"multiplier"}
                                            ELSE @])

ActivateAngle ==
    /\ gui.pc = "running"
    /\ LET scale == ConfigureScale(gui.angle_var, MIN_ANGLE, MAX_ANGLE)
       IN WriteOnly([gui EXCEPT !.angle_var = scale.var,
                                !.pending = IF scale.moved
                                            THEN @ \cup {"angle"} ELSE @])

\* an entry edit (line 142) that leaves text in the entry: the variable
\* is written, its traces run, no command is left to run
TypeVertex(text) ==
    /\ gui.pc = "running"
    /\ WriteOnly([gui EXCEPT !.vertex_var =
                     EntryWrite(@, text, MIN_VERTEX_COUNT, MAX_VERTEX_COUNT)])

\* While update_multiplier_max runs first it reads the text as typed; on
\* an infinity or a text that is no number its get() (line 163) raises
\* and the multiplier row is left as it was; the modulus Scale puts the
\* variable in its range afterwards.  Once the Scale's trace runs first
\* (scale_first), update_multiplier_max reads the variable the Scale has
\* kept in its range; on a text that is no number the Scale's trace ends
\* the write with an error and update_multiplier_max is not run
TypeModulus(text) ==
    /\ gui.pc = "running"
    /\ LET kept == EntryWrite(gui.modulus_var, text,
                              MIN_MODULUS, MAX_MODULUS)
           traced ==
               IF gui.scale_first
               THEN IF text.kind = "other" THEN gui
                    ELSE update_multiplier_max(
                             [gui EXCEPT !.modulus_var = kept])
               ELSE IF text.kind = "number"
                    THEN update_multiplier_max(
                             [gui EXCEPT !.modulus_var = text.q])
                    ELSE gui
       IN WriteOnly([traced EXCEPT !.modulus_var = kept])

TypeMultiplier(text) ==
    /\ gui.pc = "running"
    /\ WriteOnly([gui EXCEPT !.multiplier_var =
                     EntryWrite(@, text, MIN_MULTIPLIER, gui.multiplier_to)])

TypeAngle(text) ==
    /\ gui.pc = "running"
    /\ WriteOnly([gui EXCEPT !.angle_var =
                     EntryWrite(@, text, MIN_ANGLE, MAX_ANGLE)])

\* <Return> in an entry (line 145): update_display at once
PressReturn ==
    /\ gui.pc = "running"
    /\ UpdateDisplay(gui)

\* the event loop goes idle: every slider with a command left to run runs
\* it, one update_display each, and no other callback runs before the
\* last of them has returned.  The four commands are the same call, so
\* which slider goes first makes no difference
Idle ==
    /\ gui.pc \in {"running", "idle"}
    /\ gui.pending # {}
    /\ LET rest == gui.pending \ {CHOOSE s \in gui.pending : TRUE}
       IN UpdateDisplay([gui EXCEPT !.pending = rest,
                                    !.pc = IF rest = {} THEN "running"
                                           ELSE "idle"])

\* entry texts inside the sliders' ranges: the whole numbers the sliders
\* deliver and, for each row, a text with a fraction between two of
\* them, which the variable and the slider read differently
GuiVertexEntries ==
    {Number(IntText(v)) : v \in GuiVertexCounts}
    \cup {Number(IntText(MIN_VERTEX_COUNT) + 2)}

GuiModulusEntries ==
    {Number(IntText(m)) : m \in GuiModuli}
    \cup {Number(IntText(MIN_MODULUS) + 2)}

GuiMultiplierEntries(g) ==
    {Number(IntText(k)) : k \in GuiMultipliers(g)}
    \cup {Number(IntText(k) + 2) : k \in {MIN_MULTIPLIER} \cap
                                        (0..(g.multiplier_to - 1))}

GuiAngleEntries ==
    {Number(IntText(deg)) : deg \in GuiAngles}
    \cup {Number(IntText(DEFAULT_ANGLE) - 3)}

\* the GUI driven by slider moves, by the pointer crossing the knobs and
\* by entry texts inside the sliders' ranges
GuiNext ==
    \/ GuiStart
    \/ \E v \in GuiSlides(gui, GuiVertexCounts) : SlideVertex(v)
    \/ \E m \in GuiSlides(gui, GuiModuli) : SlideModulus(m)
    \/ \E k \in GuiSlides(gui, GuiMultipliers(gui)) : SlideMultiplier(k)
    \/ \E deg \in GuiSlides(gui, GuiAngles) : SlideAngle(deg)
    \/ ActivateVertex
    \/ ActivateModulus
    \/ ActivateMultiplier
    \/ ActivateAngle
    \/ \E text \in GuiVertexEntries : TypeVertex(text)
    \/ \E text \in GuiModulusEntries : TypeModulus(text)
    \/ \E text \in GuiMultiplierEntries(gui) : TypeMultiplier(text)
    \/ \E text \in GuiAngleEntries : TypeAngle(text)
    \/ PressReturn
    \/ Idle

GuiSpec == GuiInit /\ [][GuiNext]_vars

\* Texts of any kind, which the second GUI specification delivers: whole
\* numbers up to MaxOverRange outside a range, texts with a fraction on
\* both sides of zero, the infinities and a text that is no number
MaxOverRange == 1

GuiVertexTexts ==
    {Number(IntText(MIN_VERTEX_COUNT - i)) : i \in 1..MaxOverRange}
    \cup {Number(IntText(MIN_VERTEX_COUNT) - 2), NonNumeric}

GuiModulusTexts ==
    {Number(IntText(MIN_MODULUS - i)) : i \in 1..MaxOverRange}
    \cup {Number(IntText(MAX_MODULUS + i)) : i \in 1..MaxOverRange}
    \cup {Number(IntText(-1) - 3), PlusInf, MinusInf, NonNumeric}

GuiMultiplierTexts ==
    {Number(IntText(MIN_MULTIPLIER) - 3), Number(IntText(MIN_MULTIPLIER) + 2),
     MinusInf, NonNumeric}

\* multiplier slider positions the second GUI specification delivers
GuiTextMultipliers ==
    ((MIN_MULTIPLIER - 1)..(MIN_MULTIPLIER + 1))
    \cup {MAX_MODULUS + i : i \in 1..MaxOverRange}

\* the GUI driven by entry texts of any kind, by the multiplier slider
\* and by the pointer crossing the knob of the modulus slider
GuiTextNext ==
    \/ GuiStart
    \/ \E k \in GuiTextMultipliers : SlideMultiplier(k)
    \/ ActivateModulus
    \/ \E text \in GuiVertexTexts : TypeVertex(text)
    \/ \E text \in GuiModulusTexts : TypeModulus(text)
    \/ \E text \in GuiMultiplierTexts : TypeMultiplier(text)
    \/ PressReturn
    \/ Idle

GuiTextSpec == GuiInit /\ [][GuiTextNext]_vars

\* C16: every write of the modulus variable sets the multiplier slider's
\* upper bound to the new modulus and lowers the multiplier variable to the
\* modulus if it was larger, leaving it unchanged otherwise, so that
\* multiplier <= modulus after every event.
C16_MultiplierClampedOnModulusWrite ==
    [][ /\ gui'.multiplier_to = IntVarGet(gui'.modulus_var)
        /\ IntVarGet(gui'.multiplier_var) <= IntVarGet(gui'.modulus_var)
        /\ gui'.modulus_var # gui.modulus_var
           => IntVarGet(gui'.multiplier_var) =
                 IF IntVarGet(gui.multiplier_var) > IntVarGet(gui'.modulus_var)
                 THEN IntVarGet(gui'.modulus_var)
                 ELSE IntVarGet(gui.multiplier_var) ]_vars

\* C17: in the GUI-driven program every get_image call happens with
\* vertex_points, edge_points and connections all assigned and returns:
\* the update_display that ends GUI.__init__ assigns all three, no later
\* update_display raises or removes one.
C17_GuiRendersPopulated ==
    /\ gui.pc # "init" => AllComputed
    /\ last_change.called => last_change.raised = "none"
    /\ call.op = "get_image" => (AllComputed /\ call.raised = "none")
    /\ gui.pc # "init" => call.op = "get_image"

\* a later render of the degenerate polygon: no edge points, no lines
C17_Witness ==
    /\ gui.pc = "running"
    /\ call.op = "get_image"
    /\ call.raised = "none"
    /\ vertex_count < MAX_VERTEX_COUNT
    /\ modulus < vertex_count
    /\ edge_points = <<>>
    /\ call.returned.outline.shape = "polygon"
    /\ call.returned.lines = <<>>

====
